---- MODULE Spec2Model ----
(***************************************************************************)
(* Model of app/auth/redis.py: the token blacklist built on a cached redis *)
(* handle (get_redis), with the in-memory fallback store _InMemoryRedis    *)
(* that is defined when redis.asyncio cannot be imported.                  *)
(*                                                                         *)
(* Tasks are asyncio tasks of one event loop.  A started call runs until   *)
(* it awaits something that suspends it.  The remote client suspends it    *)
(* (constructor and commands are network I/O).  The in-memory store does   *)
(* not: from_url returns cls() at once, and `async with self._lock` enters *)
(* at once when the lock is free, which it is whenever a task starts to    *)
(* run, since no critical section contains an await.  A call on the        *)
(* in-memory store is therefore one step.  time.time() is the wall clock:  *)
(* it advances on its own and it can be set back.                          *)
(*                                                                         *)
(* What the lock of the in-memory store guarantees does not show when      *)
(* calls are single steps.  SpecLock therefore runs the same two methods   *)
(* statement by statement, interleaved in every way, with the queue of     *)
(* asyncio.Lock; SpecLockFair adds the fairness of the event loop.         *)
(***************************************************************************)
EXTENDS Integers, Sequences, FiniteSets, TLC

\* ---------------------------------------------------------------- bounds
MaxClock == 2
MaxTtl == 2

Procs == {1, 2}
Ids == {"a", "b"}
\* the ttls passed to add_to_blacklist; -1 stands for the negative ones
Ttls == -1..MaxTtl
Urls == {"", "redis://cfg"}
Insts == 1..Cardinality(Procs)
NoAttr == 0
NoTask == 0

VARIABLES
    HAS_REAL_REDIS, \* _HAS_REAL_REDIS: did `import redis.asyncio` succeed
    REDIS_URL,      \* settings.REDIS_URL ("" when not configured)
    redisAttr,      \* get_redis.redis: NoAttr while the attribute is unset
    nInst,          \* number of store objects constructed so far
    data,           \* data[i]: _InMemoryRedis._data of store i
    lock,           \* lock[i]: holder of _InMemoryRedis._lock of store i
    clock,          \* time.time()
    pc,             \* position of each task
    op,             \* running call: "add" (add_to_blacklist), "is" (is_blacklisted)
    jti,            \* argument jti of the running or last call
    exp,            \* argument exp of the running add_to_blacklist
    redis,          \* local variable redis of the running call
    ret,            \* how the last call ended: "ok", "true", "false" or an error
    reply,          \* the exception of the remote operation a task awaits
    expire,         \* local variable expire of a running _InMemoryRedis.set
    item,           \* local variable item of a running _InMemoryRedis.exists
    waiters,        \* waiters[i]: tasks queued on _InMemoryRedis._lock of store i
    called,         \* history: the clock when the running store call was made
    lastMark        \* history: per id, the last write made by add_to_blacklist

vars == <<HAS_REAL_REDIS, REDIS_URL, redisAttr, nInst, data, lock, clock, pc,
          op, jti, exp, redis, ret, reply, expire, item, waiters, called,
          lastMark>>

env == <<HAS_REAL_REDIS, REDIS_URL>>

\* what only a call that is inside _InMemoryRedis, between two of its
\* statements, holds
inStore == <<expire, item, waiters, called>>

\* ------------------------------------------------------- pure functions
\* f"blacklist:{jti}"
BlacklistKeyNoJti(j) == <<"blacklist:", "">>
BlacklistKey(j) == <<"blacklist:", j>>

\* settings.REDIS_URL or "redis://localhost"
UrlArg(url) == IF url = "" THEN "redis://localhost" ELSE url

\* which _create_redis the module defined: the one of the try branch builds a
\* remote client, the one of the except branch builds an _InMemoryRedis
StoreKind(hasReal) == IF hasReal THEN "remote" ELSE "local"

\* does `await _create_redis(...)` suspend the task: the remote constructor
\* awaits the client library, _InMemoryRedis.from_url returns cls() at once
CreateSuspendsAlways(hasReal) == TRUE
CreateSuspends(hasReal) == hasReal

\* expire = time.time() + ex if ex is not None else None
\* (an Optional is a sequence of length 0 or 1)
ExpireClamped(now, ex) ==
    IF ex # <<>> THEN <<now + (IF ex[1] < 0 THEN 0 ELSE ex[1])>> ELSE <<>>
ExpireNoClock(now, ex) == IF ex # <<>> THEN <<ex[1]>> ELSE <<>>
Expire(now, ex) == IF ex # <<>> THEN <<now + ex[1]>> ELSE <<>>

\* self._data[key] = (value, expire)
DictSetKeepLonger(d, k, v) ==
    IF k \in DOMAIN d /\ d[k][2] # <<>> /\ v[2] # <<>> /\ d[k][2][1] > v[2][1]
    THEN d
    ELSE [x \in DOMAIN d \cup {k} |-> IF x = k THEN v ELSE d[x]]
DictSet(d, k, v) == [x \in DOMAIN d \cup {k} |-> IF x = k THEN v ELSE d[x]]

\* del self._data[key]
DictDel(d, k) == [x \in DOMAIN d \ {k} |-> d[x]]

\* expire is not None and time.time() > expire
IsExpiredNoneAsZero(it, now) == now > (IF it[2] = <<>> THEN 0 ELSE it[2][1])
IsExpired(it, now) == it[2] # <<>> /\ now > it[2][1]

\* return value of _InMemoryRedis.exists
ExistsRet(d, k, now) ==
    IF k \notin DOMAIN d THEN 0
    ELSE IF IsExpired(d[k], now) THEN 0
    ELSE 1

\* _data after _InMemoryRedis.exists
ExistsDataSweep(d, k, now) ==
    [x \in {y \in DOMAIN d : ~IsExpired(d[y], now)} |-> d[x]]
ExistsDataMask(d, k, now) == d
ExistsData(d, k, now) ==
    IF k \in DOMAIN d /\ IsExpired(d[k], now) THEN DictDel(d, k) ELSE d

\* bool(exists)
Bool(n) == n # 0

EmptyDict == [x \in {} |-> <<>>]

\* ----------------------------------------------------------------- Init
Init ==
    /\ HAS_REAL_REDIS \in BOOLEAN
    /\ REDIS_URL \in Urls
    /\ redisAttr = NoAttr
    /\ nInst = 0
    /\ data = [i \in Insts |-> EmptyDict]
    /\ lock = [i \in Insts |-> NoTask]
    /\ clock = 0
    /\ pc = [p \in Procs |-> "idle"]
    /\ op = [p \in Procs |-> "none"]
    /\ jti = [p \in Procs |-> ""]
    /\ exp = [p \in Procs |-> 0]
    /\ redis = [p \in Procs |-> NoAttr]
    /\ ret = [p \in Procs |-> "none"]
    /\ reply = [p \in Procs |-> <<>>]
    /\ expire = [p \in Procs |-> <<>>]
    /\ item = [p \in Procs |-> <<>>]
    /\ waiters = [i \in Insts |-> <<>>]
    /\ called = [p \in Procs |-> 0]
    /\ lastMark = [x \in Ids |-> <<>>]

\* ------------------------------------------------------------- the clock
Tick ==
    /\ clock < MaxClock
    /\ clock' = clock + 1
    /\ UNCHANGED <<env, redisAttr, nInst, data, lock, pc, op, jti, exp, redis,
                   ret, reply, inStore, lastMark>>

\* the wall clock is set back
TickBack ==
    /\ clock > 0
    /\ clock' = clock - 1
    /\ UNCHANGED <<env, redisAttr, nInst, data, lock, pc, op, jti, exp, redis,
                   ret, reply, inStore, lastMark>>

\* ------------------------------------------------------------ the history
\* what the history keeps of a write made at clock value c with ttl t: its
\* expiry c + t, the sign of t, whether an is_blacklisted has since read the
\* clock past that expiry, and whether it replaced a write that expired later
Sign(t) == IF t > 0 THEN 1 ELSE IF t < 0 THEN -1 ELSE 0

MarkOf(c, t, old) ==
    <<[end |-> c + t, sgn |-> Sign(t), past |-> FALSE,
       over |-> old # <<>> /\ old[1].end > c + t]>>

\* the history notes an is_blacklisted(x) that reads the clock past the
\* expiry of the last write of x
SeenPast(m, now) ==
    IF m # <<>> /\ m[1].sgn # 2 /\ now > m[1].end
    THEN <<[m[1] EXCEPT !.past = TRUE]>>
    ELSE m

\* ------------------------------------------------- the in-memory store
\* _InMemoryRedis.set(key, "1", ex=t) on store i, called by add_to_blacklist:
\* expire from the clock, then under the lock the write; the call returns
LocalSet(p, i, x, t) ==
    /\ lock[i] = NoTask
    /\ data' = [data EXCEPT ![i] =
                   DictSet(@, BlacklistKey(x), <<"1", Expire(clock, <<t>>)>>)]
    /\ lastMark' = [lastMark EXCEPT ![x] = MarkOf(clock, t, @)]
    /\ ret' = [ret EXCEPT ![p] = "ok"]

\* _InMemoryRedis.exists(key) on store i, called by is_blacklisted: under the
\* lock the lookup, the expiry test against the clock and the purge; the call
\* returns bool(exists)
LocalExists(p, i, x) ==
    /\ lock[i] = NoTask
    /\ ret' = [ret EXCEPT ![p] =
                  IF Bool(ExistsRet(data[i], BlacklistKey(x), clock))
                  THEN "true" ELSE "false"]
    /\ data' = [data EXCEPT ![i] = ExistsData(@, BlacklistKey(x), clock)]
    /\ lastMark' = [lastMark EXCEPT ![x] = SeenPast(@, clock)]

\* the call (o, x, t) of task p goes on with the store i that get_redis
\* returned, up to its first suspension: the remote client sends SET / EXISTS
\* and the task waits for the reply; the in-memory store completes the call
UseStore(p, i, o, x, t) ==
    IF StoreKind(HAS_REAL_REDIS) = "remote"
    THEN /\ pc' = [pc EXCEPT ![p] = "remote_wait"]
         /\ op' = [op EXCEPT ![p] = o]
         /\ exp' = [exp EXCEPT ![p] = t]
         /\ redis' = [redis EXCEPT ![p] = i]
         /\ ret' = [ret EXCEPT ![p] = "none"]
         /\ UNCHANGED <<data, lastMark>>
    ELSE /\ pc' = [pc EXCEPT ![p] = "idle"]
         /\ op' = [op EXCEPT ![p] = "none"]
         /\ exp' = [exp EXCEPT ![p] = 0]
         /\ redis' = [redis EXCEPT ![p] = NoAttr]
         /\ IF o = "add" THEN LocalSet(p, i, x, t) ELSE LocalExists(p, i, x)

\* ------------------------------------------------------------- get_redis
\* get_redis() in the call (o, x, t) of task p, and what follows it up to the
\* first suspension
GetRedis(p, o, x, t) ==
    IF redisAttr # NoAttr
    THEN \* hasattr(get_redis, "redis"): return get_redis.redis
         /\ UseStore(p, redisAttr, o, x, t)
         /\ UNCHANGED <<redisAttr, nInst>>
    ELSE IF CreateSuspends(HAS_REAL_REDIS)
    THEN \* await _create_redis(...) suspends with the attribute still unset
         /\ pc' = [pc EXCEPT ![p] = "creating"]
         /\ op' = [op EXCEPT ![p] = o]
         /\ exp' = [exp EXCEPT ![p] = t]
         /\ ret' = [ret EXCEPT ![p] = "none"]
         /\ UNCHANGED <<redisAttr, nInst, redis, data, lastMark>>
    ELSE \* _create_redis returns at once: assign the attribute, return it
         /\ nInst' = nInst + 1
         /\ redisAttr' = nInst + 1
         /\ UseStore(p, nInst + 1, o, x, t)

\* ------------------------------------------------------------ exceptions
\* how a call ends when an await inside it raises e: no try / except stands
\* between the await and the caller, so the call raises e
RaisedAsNotRevoked(e) == "false"
Raised(e) == e

\* get_redis.redis after `await _create_redis(...)` raised: the assignment
\* of line 77 did not happen
AttrAfterRaiseCached(a) == -1
AttrAfterRaise(a) == a

\* ---------------------------------------------------------------- calls
\* a task runs add_to_blacklist(x, t) up to its first suspension
AddToBlacklist(p, x, t) ==
    /\ pc[p] = "idle"
    /\ jti' = [jti EXCEPT ![p] = x]
    /\ GetRedis(p, "add", x, t)
    /\ UNCHANGED <<env, lock, clock, reply, inStore>>

\* a task runs is_blacklisted(x) up to its first suspension
IsBlacklisted(p, x) ==
    /\ pc[p] = "idle"
    /\ jti' = [jti EXCEPT ![p] = x]
    /\ GetRedis(p, "is", x, 0)
    /\ UNCHANGED <<env, lock, clock, reply, inStore>>

\* the operation a task awaits from the remote client (the constructor, SET,
\* EXISTS) fails in the client library: the exception is there for the task
AwaitFails(p) ==
    /\ pc[p] \in {"creating", "remote_wait"}
    /\ StoreKind(HAS_REAL_REDIS) = "remote"
    /\ reply[p] = <<>>
    /\ reply' = [reply EXCEPT ![p] = <<"error">>]
    /\ UNCHANGED <<env, redisAttr, nInst, data, lock, clock, pc, op, jti, exp,
                   redis, ret, inStore, lastMark>>

\* the awaited constructor returns a store: get_redis.redis is assigned,
\* whatever it held, and returned; the call goes on with it
CreateReturn(p) ==
    /\ pc[p] = "creating"
    /\ reply[p] = <<>>
    /\ UNCHANGED reply
    /\ nInst' = nInst + 1
    /\ redisAttr' = nInst + 1
    /\ UseStore(p, nInst + 1, op[p], jti[p], exp[p])
    /\ UNCHANGED <<env, lock, clock, jti, inStore>>

\* the awaited remote constructor raises: nothing catches it, the exception
\* leaves get_redis and then add_to_blacklist / is_blacklisted
CreateRaise(p) ==
    /\ pc[p] = "creating"
    /\ reply[p] = <<"error">>
    /\ reply' = [reply EXCEPT ![p] = <<>>]
    /\ redisAttr' = AttrAfterRaise(redisAttr)
    /\ pc' = [pc EXCEPT ![p] = "idle"]
    /\ op' = [op EXCEPT ![p] = "none"]
    /\ exp' = [exp EXCEPT ![p] = 0]
    /\ ret' = [ret EXCEPT ![p] = Raised("create_error")]
    /\ UNCHANGED <<env, nInst, data, lock, clock, jti, redis, inStore,
                   lastMark>>

\* ------------------------------------------------------ the remote client
\* the reply to SET / EXISTS arrives; what EXISTS answers is the server's
RemoteReturn(p, r) ==
    /\ pc[p] = "remote_wait"
    /\ reply[p] = <<>>
    /\ op[p] = "add" => r = 1
    /\ UNCHANGED reply
    /\ ret' = [ret EXCEPT ![p] = IF op[p] = "add" THEN "ok"
                                 ELSE IF Bool(r) THEN "true" ELSE "false"]
    /\ pc' = [pc EXCEPT ![p] = "idle"]
    /\ op' = [op EXCEPT ![p] = "none"]
    /\ exp' = [exp EXCEPT ![p] = 0]
    /\ redis' = [redis EXCEPT ![p] = NoAttr]
    /\ UNCHANGED <<env, redisAttr, nInst, data, lock, clock, jti, inStore,
                   lastMark>>

\* the client raises (connection lost, timeout): nothing catches it
RemoteRaise(p) ==
    /\ pc[p] = "remote_wait"
    /\ reply[p] = <<"error">>
    /\ reply' = [reply EXCEPT ![p] = <<>>]
    /\ ret' = [ret EXCEPT ![p] = Raised("call_error")]
    /\ pc' = [pc EXCEPT ![p] = "idle"]
    /\ op' = [op EXCEPT ![p] = "none"]
    /\ exp' = [exp EXCEPT ![p] = 0]
    /\ redis' = [redis EXCEPT ![p] = NoAttr]
    /\ UNCHANGED <<env, redisAttr, nInst, data, lock, clock, jti, inStore,
                   lastMark>>

\* ----------------------------------------------------------------- Next
Next ==
    \/ Tick
    \/ TickBack
    \/ \E p \in Procs, x \in Ids, t \in Ttls : AddToBlacklist(p, x, t)
    \/ \E p \in Procs, x \in Ids : IsBlacklisted(p, x)
    \/ \E p \in Procs : AwaitFails(p)
    \/ \E p \in Procs : CreateReturn(p)
    \/ \E p \in Procs : CreateRaise(p)
    \/ \E p \in Procs, r \in {0, 1} : RemoteReturn(p, r)
    \/ \E p \in Procs : RemoteRaise(p)

Spec == Init /\ [][Next]_vars

\* ------------------------------------- the in-memory store, by statement
\* The same two methods with every statement a step of its own, so that the
\* calls of the tasks interleave in every way a scheduler could interleave
\* them, and with set(key, value) without ex, which the class accepts.
LockIds == {"a"}
LockExs == {<<>>, <<0>>, <<1>>}

\* asyncio.Lock.acquire returns at once: not locked and nobody waits
LockFreeAlways(l, w) == TRUE
LockFree(l, w) == l = NoTask /\ w = <<>>

\* the holder of the lock after `async with self._lock` is left by way of
\* path: the end of the block in set, one of the three returns in exists
ReleaseNotOnPurge(path, p) == IF path = "expired" THEN p ELSE NoTask
Release(path, p) == NoTask

\* what the history keeps of a write without ex
MarkNoExpiry == <<[end |-> 0, sgn |-> 2, past |-> FALSE, over |-> FALSE]>>

\* redis = await get_redis() on the in-memory build: no suspension
StoreNow == IF redisAttr # NoAttr THEN redisAttr ELSE nInst + 1

Called(p, i, x, o) ==
    /\ pc[p] = "idle"
    /\ StoreKind(HAS_REAL_REDIS) = "local"
    /\ redisAttr' = i
    /\ nInst' = IF redisAttr # NoAttr THEN nInst ELSE nInst + 1
    /\ redis' = [redis EXCEPT ![p] = i]
    /\ jti' = [jti EXCEPT ![p] = x]
    /\ op' = [op EXCEPT ![p] = o]
    /\ ret' = [ret EXCEPT ![p] = "none"]
    /\ called' = [called EXCEPT ![p] = clock]

\* set(key, "1", ex) is called, by add_to_blacklist (ex = exp) or without ex:
\* line 52, expire from the clock
SetCall(p, x, ex) ==
    /\ Called(p, StoreNow, x, IF ex = <<>> THEN "set" ELSE "add")
    /\ exp' = [exp EXCEPT ![p] = IF ex = <<>> THEN 0 ELSE ex[1]]
    /\ expire' = [expire EXCEPT ![p] = Expire(clock, ex)]
    /\ pc' = [pc EXCEPT ![p] = "set_lock"]
    /\ UNCHANGED <<env, data, lock, clock, reply, item, waiters, lastMark>>

\* exists(key) is called by is_blacklisted
ExistsCall(p, x) ==
    /\ Called(p, StoreNow, x, "is")
    /\ pc' = [pc EXCEPT ![p] = "exists_lock"]
    /\ UNCHANGED <<env, data, lock, clock, exp, reply, expire, item, waiters,
                   lastMark>>

\* the task has the lock and is in the block; the history notes the write
\* of the set that enters
Enter(p, i) ==
    /\ lock' = [lock EXCEPT ![i] = p]
    /\ pc' = [pc EXCEPT ![p] = IF op[p] = "is" THEN "exists_cs" ELSE "set_cs"]
    /\ lastMark' = [lastMark EXCEPT ![jti[p]] =
                       IF op[p] = "add" THEN MarkOf(called[p], exp[p], @)
                       ELSE IF op[p] = "set" THEN MarkNoExpiry
                       ELSE @]

\* `async with self._lock`: asyncio.Lock.acquire takes the lock or queues
\* the task behind the ones that wait
Acquire(p) ==
    /\ pc[p] \in {"set_lock", "exists_lock"}
    /\ IF LockFree(lock[redis[p]], waiters[redis[p]])
       THEN /\ Enter(p, redis[p])
            /\ UNCHANGED waiters
       ELSE /\ waiters' = [waiters EXCEPT ![redis[p]] = Append(@, p)]
            /\ pc' = [pc EXCEPT ![p] = IF op[p] = "is" THEN "exists_wait"
                                       ELSE "set_wait"]
            /\ UNCHANGED <<lock, lastMark>>
    /\ UNCHANGED <<env, redisAttr, nInst, data, clock, op, jti, exp, redis, ret,
                   reply, expire, item, called>>

\* the lock was released and the task is the first of the queue: it is woken
\* and takes the lock
Wake(p) ==
    /\ pc[p] \in {"set_wait", "exists_wait"}
    /\ lock[redis[p]] = NoTask
    /\ waiters[redis[p]] # <<>>
    /\ Head(waiters[redis[p]]) = p
    /\ waiters' = [waiters EXCEPT ![redis[p]] = Tail(@)]
    /\ Enter(p, redis[p])
    /\ UNCHANGED <<env, redisAttr, nInst, data, clock, op, jti, exp, redis, ret,
                   reply, expire, item, called>>

\* the call of task p is over
Returned(p, r) ==
    /\ pc' = [pc EXCEPT ![p] = "idle"]
    /\ op' = [op EXCEPT ![p] = "none"]
    /\ exp' = [exp EXCEPT ![p] = 0]
    /\ redis' = [redis EXCEPT ![p] = NoAttr]
    /\ expire' = [expire EXCEPT ![p] = <<>>]
    /\ item' = [item EXCEPT ![p] = <<>>]
    /\ called' = [called EXCEPT ![p] = 0]
    /\ ret' = [ret EXCEPT ![p] = r]

\* line 54 and the end of the block: the write, the release, the return
SetWrite(p) ==
    /\ pc[p] = "set_cs"
    /\ data' = [data EXCEPT ![redis[p]] =
                   DictSet(@, BlacklistKey(jti[p]), <<"1", expire[p]>>)]
    /\ lock' = [lock EXCEPT ![redis[p]] = Release("set", p)]
    /\ Returned(p, "ok")
    /\ UNCHANGED <<env, redisAttr, nInst, clock, jti, reply, waiters, lastMark>>

\* line 58: item = self._data.get(key)
ExistsGet(p) ==
    /\ pc[p] = "exists_cs"
    /\ item' = [item EXCEPT ![p] =
                   IF BlacklistKey(jti[p]) \in DOMAIN data[redis[p]]
                   THEN <<data[redis[p]][BlacklistKey(jti[p])]>> ELSE <<>>]
    /\ pc' = [pc EXCEPT ![p] = "exists_test"]
    /\ UNCHANGED <<env, redisAttr, nInst, data, lock, clock, op, jti, exp, redis,
                   ret, reply, expire, waiters, called, lastMark>>

\* by which return exists leaves the block
ExistsPath(it, now) ==
    IF it = <<>> THEN "absent"
    ELSE IF IsExpired(it[1], now) THEN "expired"
    ELSE "live"

\* lines 59-66: the tests, the purge, the release, the return; is_blacklisted
\* returns bool(exists)
ExistsTest(p) ==
    /\ pc[p] = "exists_test"
    /\ data' = [data EXCEPT ![redis[p]] =
                   IF ExistsPath(item[p], clock) = "expired"
                   THEN DictDel(@, BlacklistKey(jti[p])) ELSE @]
    /\ lock' = [lock EXCEPT ![redis[p]] =
                   Release(ExistsPath(item[p], clock), p)]
    /\ lastMark' = [lastMark EXCEPT ![jti[p]] = SeenPast(@, clock)]
    /\ Returned(p, IF Bool(IF ExistsPath(item[p], clock) = "live" THEN 1 ELSE 0)
                   THEN "true" ELSE "false")
    /\ UNCHANGED <<env, redisAttr, nInst, clock, jti, reply, waiters>>

\* the in-memory build; from_url ignores the url, so it is left unset
InitLock == Init /\ ~HAS_REAL_REDIS /\ REDIS_URL = ""

NextLock ==
    \/ Tick
    \/ TickBack
    \/ \E p \in Procs, x \in LockIds, ex \in LockExs : SetCall(p, x, ex)
    \/ \E p \in Procs, x \in LockIds : ExistsCall(p, x)
    \/ \E p \in Procs : Acquire(p)
    \/ \E p \in Procs : Wake(p)
    \/ \E p \in Procs : SetWrite(p)
    \/ \E p \in Procs : ExistsGet(p)
    \/ \E p \in Procs : ExistsTest(p)

SpecLock == InitLock /\ [][NextLock]_vars

\* the event loop runs every task that can run
Runs(p) == Acquire(p) \/ Wake(p) \/ SetWrite(p) \/ ExistsGet(p) \/ ExistsTest(p)

SpecLockFair == SpecLock /\ \A p \in Procs : WF_vars(Runs(p))

\* ---------------------------------------------------------- the two builds
\* The build with the remote client alone: this is where constructions and
\* commands suspend and fail.
InitRemote == Init /\ HAS_REAL_REDIS

SpecRemote == InitRemote /\ [][Next]_vars

\* The build with the in-memory store alone, whose from_url ignores the url:
\* no call suspends, so the calls and the clock are all that happens.
NextLocal ==
    \/ Tick
    \/ TickBack
    \/ \E p \in Procs, x \in Ids, t \in Ttls : AddToBlacklist(p, x, t)
    \/ \E p \in Procs, x \in Ids : IsBlacklisted(p, x)

SpecLocal == InitLock /\ [][NextLocal]_vars

\* =============================================================== claims
LocalMode == StoreKind(HAS_REAL_REDIS) = "local"

\* the expiry of the last write of x, as the history has it
Deadline(x) == lastMark[x][1].end

\* x has never been passed to add_to_blacklist
NeverMarked(x) ==
    /\ lastMark[x] = <<>>
    /\ \A q \in Procs : ~(op[q] = "add" /\ jti[q] = x)

\* this step completes an is_blacklisted(x) of task p on the in-memory store
IsReturns(p, x) ==
    /\ LocalMode
    /\ pc'[p] = "idle"
    /\ jti'[p] = x
    /\ ret'[p] \in {"true", "false"}
    /\ <<pc[p], jti[p], ret[p]>> # <<pc'[p], jti'[p], ret'[p]>>

\* the table of the store get_redis hands out has no entry for x
NoEntry(x) == redisAttr # NoAttr /\ BlacklistKey(x) \notin DOMAIN data[redisAttr]

\* ---- C1
\* C1 as stated: after add_to_blacklist(x, t) with t > 0 whose expire was
\* computed at clock value c0, every is_blacklisted(x) evaluated at a clock
\* value c with c0 <= c < c0 + t returns true, as long as no other
\* add_to_blacklist(x, ...) has written since.  Stated for the last clock
\* value of that window, c = c0 + t - 1, which lies in it whatever c0 and t.
C1_RevokedWithinTtl ==
    [][\A p \in Procs, x \in Ids :
          (/\ IsReturns(p, x)
           /\ lastMark[x] # <<>>
           /\ lastMark[x][1].sgn > 0
           /\ clock = Deadline(x) - 1)
          => ret'[p] = "true"]_vars

\* C1 amended: every is_blacklisted(x) evaluated at a clock value
\* c < c0 + t returns true, provided no is_blacklisted(x) has read the clock
\* past c0 + t since that write (none can have while the clock never goes
\* backwards).
C1_RevokedWithinTtlUnlessPurged ==
    [][\A p \in Procs, x \in Ids :
          (/\ IsReturns(p, x)
           /\ lastMark[x] # <<>>
           /\ lastMark[x][1].sgn > 0
           /\ ~lastMark[x][1].past
           /\ clock < Deadline(x))
          => ret'[p] = "true"]_vars

C1_Witness ==
    \E p \in Procs, x \in Ids :
        /\ LocalMode
        /\ pc[p] = "idle" /\ jti[p] = x /\ ret[p] = "true"
        /\ lastMark[x] # <<>>
        /\ lastMark[x][1].sgn > 0
        /\ ~lastMark[x][1].past
        /\ clock > 0
        /\ clock < Deadline(x)

\* ---- C2
\* C2: on the in-memory store, is_blacklisted(x) of an id x never passed to
\* add_to_blacklist returns false, whatever was done with other ids, and no
\* call on the in-memory store ends in an exception.
C2_UnknownIdNotRevoked ==
    [][/\ \A p \in Procs, x \in Ids :
             (IsReturns(p, x) /\ NeverMarked(x)) => ret'[p] = "false"
       /\ \A p \in Procs :
             LocalMode => ret'[p] \notin {"create_error", "call_error"}]_vars

C2_Witness ==
    \E p \in Procs, x \in Ids, y \in Ids :
        /\ LocalMode
        /\ pc[p] = "idle" /\ jti[p] = x /\ ret[p] = "false"
        /\ NeverMarked(x)
        /\ y # x
        /\ lastMark[y] # <<>>
        /\ ~NoEntry(y)

\* ---- C3
\* C3 as stated: an entry whose expiry equals the clock value read by
\* is_blacklisted counts as expired, so add_to_blacklist(x, 0) followed by
\* is_blacklisted(x) at the same clock value returns false.
C3_BoundaryIsExpired ==
    [][\A p \in Procs, x \in Ids :
          (/\ IsReturns(p, x)
           /\ lastMark[x] # <<>>
           /\ lastMark[x][1].sgn = 0
           /\ Deadline(x) = clock)
          => ret'[p] = "false"]_vars

\* ---- C4
\* C4 as stated: _create_redis is entered at most once, and at most one store
\* object is ever constructed, however the first get_redis calls interleave.
C4_CreatedAtMostOnce ==
    Cardinality({p \in Procs : pc[p] = "creating"}) + nInst <= 1

\* ---- C5
\* C5: on the in-memory store no write is lost: every id written with a
\* ttl > 0 whose expiry no reader has seen passed is in the table of the store
\* get_redis hands out, and an is_blacklisted of such an id before its expiry
\* returns true, whichever task constructed the store and in whatever order
\* the calls ran.
C5_NoLostUpdate ==
    [][/\ \A x \in Ids :
             (LocalMode /\ lastMark'[x] # <<>> /\ ~lastMark'[x][1].past)
             => (redisAttr' # NoAttr
                 /\ BlacklistKey(x) \in DOMAIN data'[redisAttr'])
       /\ \A p \in Procs, x \in Ids :
             (/\ IsReturns(p, x)
              /\ lastMark[x] # <<>>
              /\ lastMark[x][1].sgn > 0
              /\ ~lastMark[x][1].past
              /\ clock <= Deadline(x))
             => ret'[p] = "true"]_vars

C5_Witness ==
    /\ LocalMode
    /\ \A x \in Ids : lastMark[x] # <<>> /\ lastMark[x][1].sgn > 0
    /\ \E p \in Procs, q \in Procs :
          /\ p # q
          /\ jti[p] # jti[q]
          /\ pc[p] = "idle" /\ ret[p] = "true"
          /\ pc[q] = "idle" /\ ret[q] = "true"

\* ---- C6
\* C6 as stated: a failure to construct the remote store never reaches the
\* caller of get_redis, add_to_blacklist or is_blacklisted.
C6_ConstructionFailureAbsorbed ==
    \A p \in Procs : ret[p] # "create_error"

\* ---- C7
\* C7: an is_blacklisted(x) that reads the clock past the expiry of the last
\* write of x returns false and leaves the table without an entry for x.
C7_ExpiryPurges ==
    [][\A p \in Procs, x \in Ids :
          (/\ IsReturns(p, x)
           /\ lastMark[x] # <<>>
           /\ clock > Deadline(x))
          => (/\ ret'[p] = "false"
              /\ BlacklistKey(x) \notin DOMAIN data'[redisAttr'])]_vars

C7_Witness ==
    \E p \in Procs, x \in Ids :
        /\ LocalMode
        /\ pc[p] = "idle" /\ jti[p] = x /\ ret[p] = "false"
        /\ lastMark[x] # <<>>
        /\ lastMark[x][1].sgn > 0
        /\ lastMark[x][1].past
        /\ clock > Deadline(x)
        /\ NoEntry(x)

\* ---- C8
\* C8: the table holds at most one entry per id and its expiry is the one the
\* last write computed, also when that write replaced one that expired later;
\* so an is_blacklisted(x) that reads the clock past the expiry of a write
\* that shortened the entry returns false.
C8_LastWriteWins ==
    [][/\ \A x \in Ids :
             (LocalMode /\ redisAttr' # NoAttr
                 /\ BlacklistKey(x) \in DOMAIN data'[redisAttr'])
             => (/\ lastMark'[x] # <<>>
                 /\ data'[redisAttr'][BlacklistKey(x)] =
                       <<"1", <<lastMark'[x][1].end>>>>)
       /\ \A p \in Procs, x \in Ids :
             (/\ IsReturns(p, x)
              /\ lastMark[x] # <<>>
              /\ lastMark[x][1].over
              /\ clock > Deadline(x))
             => ret'[p] = "false"]_vars

C8_Witness ==
    \E p \in Procs, x \in Ids :
        /\ LocalMode
        /\ pc[p] = "idle" /\ jti[p] = x /\ ret[p] = "false"
        /\ lastMark[x] # <<>>
        /\ lastMark[x][1].over
        /\ lastMark[x][1].past
        /\ lastMark[x][1].sgn >= 0
        /\ clock = Deadline(x) + 1
        /\ NoEntry(x)

\* ---- C9
\* C9 as stated: once a get_redis call has returned a store, get_redis.redis
\* is never assigned again and every later get_redis returns that store.
C9_CachedStoreNeverReplaced ==
    [][/\ redisAttr # NoAttr => redisAttr' = redisAttr
       /\ \A p \in Procs :
             (nInst > 0 /\ redis[p] = NoAttr /\ redis'[p] # NoAttr)
             => redis'[p] = redisAttr]_vars

\* ---- C10
\* the url of the remote store get_redis has contacted, "" when none
ContactedUrl ==
    IF StoreKind(HAS_REAL_REDIS) = "remote"
       /\ (nInst > 0 \/ \E p \in Procs : pc[p] = "creating")
    THEN UrlArg(REDIS_URL)
    ELSE ""

\* C10 as stated: with no REDIS_URL configured get_redis contacts no remote
\* store and hands out the in-memory store.
C10_NoUrlMeansLocalStore ==
    REDIS_URL = "" => (ContactedUrl = "" /\ (nInst > 0 => LocalMode))

\* C11: once a store is selected, a failure of the remote store's SET or
\* EXISTS ends the add_to_blacklist / is_blacklisted that awaits it with that
\* failure: the call does not go on, it ends neither with a result nor with a
\* boolean, and the cached store handle stays what it was
C11_CallFailureSurfaced ==
    [][\A p \in Procs :
          (/\ pc[p] = "remote_wait"
           /\ reply[p] = <<"error">>
           /\ <<pc[p], ret[p]>> # <<pc'[p], ret'[p]>>)
          => /\ pc'[p] = "idle"
             /\ ret'[p] = "call_error"
             /\ redisAttr' = redisAttr
             /\ nInst' = nInst]_vars

C11_Witness ==
    \E p \in Procs : ret[p] = "call_error" /\ redisAttr # NoAttr

\* the positions inside `async with self._lock`
InBlock == {"set_cs", "exists_cs", "exists_test"}

Lookup(d, k) == IF k \in DOMAIN d THEN <<d[k]>> ELSE <<>>

\* C12: on the in-memory store at most one set / exists is inside the block
\* of the lock at a time and it holds the lock; _data is read, written and
\* deleted from only by the task that holds the lock; and between the lookup
\* of an exists and its expiry test and delete nothing else touches _data
C12_MutualExclusion ==
    /\ [](/\ Cardinality({p \in Procs : pc[p] \in InBlock}) <= 1
          /\ \A p \in Procs :
                pc[p] \in InBlock => lock[redis[p]] = p
          /\ \A p \in Procs :
                pc[p] = "exists_test"
                => item[p] = Lookup(data[redis[p]], BlacklistKey(jti[p])))
    /\ [][\A i \in Insts :
             data'[i] # data[i]
             => /\ lock[i] # NoTask
                /\ pc[lock[i]] \in InBlock
                /\ pc'[lock[i]] = "idle"]_vars

\* a task is in the block while the other one waits for the lock
C12_Witness ==
    \E p, q \in Procs :
        /\ pc[p] \in InBlock
        /\ pc[q] \in {"set_wait", "exists_wait"}
        /\ waiters[redis[q]] = <<q>>

\* the entry of x in store i is expired at the clock
ExpiredEntry(i, x) ==
    /\ BlacklistKey(x) \in DOMAIN data[i]
    /\ data[i][BlacklistKey(x)][2] # <<>>
    /\ clock > data[i][BlacklistKey(x)][2][1]

\* has table d an entry for x; do the tables d and e differ at x
Has(d, x) == BlacklistKey(x) \in DOMAIN d

Differ(d, e, x) ==
    \/ Has(d, x) # Has(e, x)
    \/ Has(d, x) /\ d[BlacklistKey(x)] # e[BlacklistKey(x)]

\* the step is one of task p
Moved(p) == ret[p] # ret'[p] \/ jti[p] # jti'[p] \/ pc[p] # pc'[p]

AddReturns(p, x) ==
    /\ LocalMode
    /\ pc'[p] = "idle" /\ jti'[p] = x /\ ret'[p] = "ok"
    /\ <<pc[p], jti[p], ret[p]>> # <<pc'[p], jti'[p], ret'[p]>>

\* C13: on the in-memory store add_to_blacklist(x) changes the entry of x
\* only; is_blacklisted(x) leaves the table as it is when x is absent or
\* unexpired and otherwise removes the expired entry of x and nothing else;
\* no step removes an entry that is not expired; the passing of time removes
\* nothing, so an expired entry that nobody looks up stays in the table; and
\* a call about x changes neither the entry of another id nor what
\* is_blacklisted would answer for it
C13_Frame ==
    [][/\ data' # data
          => /\ clock' = clock
             /\ \A j \in Insts \ {redisAttr'} : data'[j] = data[j]
             /\ \A x \in Ids :
                   (Has(data[redisAttr'], x) /\ ~Has(data'[redisAttr'], x))
                   => ExpiredEntry(redisAttr', x)
             /\ \A x \in Ids : \A y \in Ids \ {x} :
                   ~(/\ Differ(data[redisAttr'], data'[redisAttr'], x)
                     /\ Differ(data[redisAttr'], data'[redisAttr'], y))
       /\ \A p \in Procs :
             (Moved(p) /\ pc'[p] = "idle" /\ LocalMode)
             => /\ \A y \in Ids \ {jti'[p]} :
                      /\ ~Differ(data[redisAttr'], data'[redisAttr'], y)
                      /\ ExistsRet(data'[redisAttr'], BlacklistKey(y), clock')
                           = ExistsRet(data[redisAttr'], BlacklistKey(y), clock)
                /\ ret'[p] # "ok"
                   => IF ExpiredEntry(redisAttr', jti'[p])
                      THEN ~Has(data'[redisAttr'], jti'[p])
                      ELSE data' = data]_vars

\* an expired entry that no is_blacklisted has looked up since it expired is
\* still in the table after a call about another id has returned
C13_Witness ==
    \E x \in Ids, p \in Procs :
        /\ redisAttr # NoAttr
        /\ ExpiredEntry(redisAttr, x)
        /\ ~lastMark[x][1].past
        /\ pc[p] = "idle" /\ jti[p] \in Ids \ {x} /\ ret[p] = "false"

\* C14: no call on the in-memory store blocks for ever: with a fair event
\* loop every started set / exists gets the lock and returns; the lock is
\* released on leaving the block by every path (the end of set, the three
\* returns of exists), so it is held only by a task that is in the block;
\* and whenever a call is running some task can take a step
C14_NoBlocking ==
    /\ \A p \in Procs : (pc[p] # "idle") ~> (pc[p] = "idle")
    /\ [][\A p \in Procs :
             (pc[p] \in InBlock /\ pc'[p] = "idle")
             => lock'[redis[p]] = NoTask]_vars
    /\ [](\A i \in Insts : lock[i] # NoTask => pc[lock[i]] \in InBlock)
    /\ []((\E p \in Procs : pc[p] # "idle") => ENABLED (\E p \in Procs : Runs(p)))

\* an exists is about to leave the block by the purge while a task waits
C14_Witness ==
    \E p, q \in Procs :
        /\ pc[p] = "exists_test"
        /\ ExistsPath(item[p], clock) = "expired"
        /\ pc[q] \in {"set_wait", "exists_wait"}

\* the last set of x that entered the block was one without ex
NoExpiryMarked(x) == lastMark[x] # <<>> /\ lastMark[x][1].sgn = 2

\* C15: an entry written by set without ex (expire None) never expires: at
\* every clock value an exists of its key returns 1 and leaves it in the
\* table, and it stays there, until a later set overwrites it
C15_NoExpiryNeverExpires ==
    /\ [][\A p \in Procs, x \in Ids :
             (IsReturns(p, x) /\ NoExpiryMarked(x))
             => /\ ret'[p] = "true"
                /\ Lookup(data'[redisAttr], BlacklistKey(x)) = <<<<"1", <<>>>>>>]_vars
    /\ [](\A x \in Ids :
             (NoExpiryMarked(x) /\ \A p \in Procs : pc[p] # "set_cs")
             => Lookup(data[redisAttr], BlacklistKey(x)) = <<<<"1", <<>>>>>>)

\* an is_blacklisted found such an entry at the largest clock value
C15_Witness ==
    \E p \in Procs, x \in Ids :
        /\ NoExpiryMarked(x)
        /\ pc[p] = "idle" /\ jti[p] = x /\ ret[p] = "true"
        /\ clock = MaxClock

\* C16: a construction that fails is not remembered: when the awaited
\* _create_redis raises inside get_redis, the call ends with that error and
\* get_redis.redis and the stores built so far are what they were (unset
\* stays unset); a call that finds the attribute unset attempts the
\* construction; and the attribute is assigned only by a call whose
\* construction returned a store, to that store
C16_FailureNotMemoized ==
    [][/\ \A p \in Procs :
             (/\ pc[p] = "creating"
              /\ reply[p] = <<"error">>
              /\ <<pc[p], ret[p]>> # <<pc'[p], ret'[p]>>)
             => /\ pc'[p] = "idle"
                /\ ret'[p] = "create_error"
                /\ redisAttr' = redisAttr
                /\ nInst' = nInst
       /\ \A p \in Procs :
             (pc[p] = "idle" /\ pc'[p] # "idle" /\ redisAttr = NoAttr)
             => pc'[p] = "creating"
       /\ redisAttr' # redisAttr
          => /\ nInst' = nInst + 1
             /\ redisAttr' = nInst'
             /\ \/ LocalMode
                \/ \E p \in Procs :
                      /\ pc[p] = "creating"
                      /\ reply[p] = <<>>
                      /\ pc'[p] # "creating"]_vars

\* a construction has failed, no other is under way, the attribute is unset
C16_Witness ==
    /\ redisAttr = NoAttr
    /\ nInst = 0
    /\ \E p \in Procs : ret[p] = "create_error"
    /\ \A p \in Procs : pc[p] = "idle"

\* C17: on the in-memory store expiry is not undone: once an
\* is_blacklisted(x) has read the clock past the expiry of the last write of
\* x, and so returned false, every later is_blacklisted(x) returns false and
\* finds no entry, at whatever value the clock then has, also one before that
\* expiry, until an add_to_blacklist(x) writes again
C17_ExpiryIrreversible ==
    [][\A p \in Procs, x \in Ids :
          (IsReturns(p, x) /\ lastMark[x] # <<>> /\ lastMark[x][1].past)
          => /\ ret'[p] = "false"
             /\ NoEntry(x)
             /\ BlacklistKey(x) \notin DOMAIN data'[redisAttr]]_vars

\* false is returned for an id whose last write has not expired by the clock
C17_Witness ==
    \E p \in Procs, x \in Ids :
        /\ LocalMode
        /\ lastMark[x] # <<>> /\ lastMark[x][1].past
        /\ lastMark[x][1].sgn > 0
        /\ clock < Deadline(x)
        /\ pc[p] = "idle" /\ jti[p] = x /\ ret[p] = "false"

\* the pair the last set of x that entered the block was called to write:
\* the value "1" and the clock of the call plus ex, or None without ex
LastPair(x) ==
    <<"1", IF lastMark[x][1].sgn = 2 THEN <<>> ELSE <<Deadline(x)>>>>

SetRunning == {"set_lock", "set_wait", "set_cs"}

\* C18: sets of the same key that run together: each has computed its expire
\* from the clock at its call, before it asks for the lock, and keeps it while
\* it waits; once none of them is inside the block the table holds for that
\* key the one pair (value, expire) of the set that entered the block last,
\* with the expire of that set's call and not of the time of the write, until
\* an exists purges it
C18_LastEntrantWins ==
    /\ \A p \in Procs :
          (pc[p] \in SetRunning /\ op[p] = "add")
          => expire[p] = <<called[p] + exp[p]>>
    /\ \A x \in Ids :
          (/\ lastMark[x] # <<>>
           /\ \A p \in Procs : ~(pc[p] = "set_cs" /\ jti[p] = x))
          => Lookup(data[redisAttr], BlacklistKey(x))
               = IF lastMark[x][1].past THEN <<>> ELSE <<LastPair(x)>>

\* one set is in the block, another one of the same key waits for the lock
\* with a different expire, and the clock has moved on since both were called
C18_Witness ==
    \E p, q \in Procs :
        /\ pc[p] = "set_cs" /\ pc[q] = "set_wait"
        /\ op[p] = "add" /\ op[q] = "add"
        /\ jti[p] = jti[q]
        /\ expire[p] # expire[q]
        /\ clock > called[p] /\ clock > called[q]

\* C19: a negative ttl is not rejected: on the in-memory store
\* add_to_blacklist(x, t) with t < 0 returns without error and leaves for x,
\* whatever was there, an entry whose expiry lies before the clock of the
\* call; and while the clock is not before that call's (so past that expiry)
\* every is_blacklisted(x) before the next write returns false and leaves no
\* entry: the write takes back an earlier revocation of x
C19_NegativeTtlUnrevokes ==
    [][\A p \in Procs, x \in Ids :
          /\ (AddReturns(p, x) /\ lastMark'[x][1].sgn = -1)
             => /\ ret'[p] = "ok"
                /\ Lookup(data'[redisAttr'], BlacklistKey(x))
                     = <<<<"1", <<Deadline(x)'>>>>>>
                /\ Deadline(x)' < clock
          /\ (/\ IsReturns(p, x)
              /\ lastMark[x] # <<>>
              /\ lastMark[x][1].sgn = -1
              /\ clock > Deadline(x))
             => /\ ret'[p] = "false"
                /\ BlacklistKey(x) \notin DOMAIN data'[redisAttr]]_vars

\* false is returned for an id after a write with a negative ttl replaced a
\* write of that id that expired later
C19_Witness ==
    \E p \in Procs, x \in Ids :
        /\ LocalMode
        /\ lastMark[x] # <<>>
        /\ lastMark[x][1].sgn = -1 /\ lastMark[x][1].over /\ lastMark[x][1].past
        /\ pc[p] = "idle" /\ jti[p] = x /\ ret[p] = "false"

====
